---------------------------- MODULE Spec2Model ----------------------------
(***************************************************************************)
(* Verification model of the WarpCat backend (kskaclord/warpcat-backend).  *)
(*                                                                         *)
(* The repository holds several iterations of one Express server.  Two of  *)
(* them generate the per-identifier image and are modelled here:           *)
(*                                                                         *)
(*   "render"   src/index.js 370-706: renderWarpCatSVG draws a palette and *)
(*              five traits from a SHA-256 seeded generator (prngFromFid,  *)
(*              pickOne) and GET /img/preview/:fid.svg serves the result.  *)
(*              The same file holds the route table and POST /frame/mint   *)
(*              with its minted.json list (loadMinted, saveMinted).        *)
(*   "compose"  src/unnamed/part_001 and part_002: buildSvg pastes asset   *)
(*              files (ensureAsset, randFrom) into one document which the  *)
(*              routes /img/preview/:fid.svg and /img/preview/:fid.png     *)
(*              serve, the latter through svgToPng.                        *)
(*                                                                         *)
(*   "select"   the rule-driven trait selector of spec.md section 4.1      *)
(*              (weighted draw, conflict and requirement rules, fallback   *)
(*              fill).  Its code is not among the source files; it is      *)
(*              modelled from the specification's algorithm.               *)
(*                                                                         *)
(*   "mini"     src/index.js 1-368 and src/unnamed/part_003: the mini-app  *)
(*              server with its transaction, frame, webhook and metadata   *)
(*              routes; the /frame/tx routes of part_002 belong to the     *)
(*              "compose" file.                                            *)
(*   "script"   src/scripts/gen-assoc.js, the account association script.  *)
(*                                                                         *)
(* A deployment runs one of the files; `variant` records which.            *)
(*                                                                         *)
(* JavaScript strings are sequences of one-character strings, so that      *)
(* Number(), String() and BigInt() are computed and not assumed.           *)
(***************************************************************************)
EXTENDS Integers, Sequences, FiniteSets, TLC

VARIABLES
    variant,    \* which server file is deployed: "render" or "compose"
    calls,      \* render: per request slot, the renderWarpCatSVG call in progress
    cursor,     \* render: the variable `i` of each generator closure
    store,      \* compose: the asset files present under ASSETS_DIR
    reqs,       \* compose: per request slot, the image request in progress
    sel,        \* the trait selector of spec.md section 4.1 (one selection run)
    minted,     \* render: the fids array of data/minted.json
    resp,       \* render: the last response to a frame or image request
    mintLog,    \* render: the fids a POST /frame/mint was served for
    env,        \* mini: the process environment the server or script reads
    conn,       \* mini: the request in progress and its response
    script      \* script: the run of the association script

renderVars  == <<calls, cursor>>
composeVars == <<store, reqs>>
selectVars  == <<sel>>
frameVars   == <<minted, resp, mintLog>>
miniVars    == <<env, conn, script>>
vars        == <<variant, calls, cursor, store, reqs, sel, minted, resp, mintLog,
                 env, conn, script>>

\* Number of request slots: requests the server is handling at the same time.
MaxReq == 2

Slots == 1..MaxReq

(***************************************************************************)
(* JavaScript values                                                       *)
(***************************************************************************)
Undefined == "undefined"

Digits == <<"0", "1", "2", "3", "4", "5", "6", "7", "8", "9">>

IsDigit(c) == \E i \in 1..10 : Digits[i] = c

DigitVal(c) == (CHOOSE i \in 1..10 : Digits[i] = c) - 1

\* A non-empty run of decimal digits.
IsDecimal(s) == Len(s) > 0 /\ \A k \in 1..Len(s) : IsDigit(s[k])

RECURSIVE DecimalVal(_)
DecimalVal(s) ==
    IF s = <<>> THEN 0
    ELSE 10 * DecimalVal(SubSeq(s, 1, Len(s) - 1)) + DigitVal(s[Len(s)])

RECURSIVE DecimalStr(_)
DecimalStr(n) ==
    IF n < 10 THEN <<Digits[n + 1]>>
    ELSE DecimalStr(n \div 10) \o <<Digits[(n % 10) + 1]>>

\* A signed decimal literal: the strings over digits, "-" and letters that
\* Number() and BigInt() both accept.
IsSignedDecimal(s) ==
    \/ IsDecimal(s)
    \/ Len(s) > 1 /\ s[1] = "-" /\ IsDecimal(Tail(s))

SignedVal(s) == IF s[1] = "-" THEN 0 - DecimalVal(Tail(s)) ELSE DecimalVal(s)

\* Number(s) for a route parameter s (never empty): the value, or NaN.
ToNumber(s) ==
    IF IsSignedDecimal(s) THEN [nan |-> FALSE, val |-> SignedVal(s)]
    ELSE [nan |-> TRUE, val |-> 0]

\* String(n) for a JavaScript number n (an integer below 2^53, or NaN).
NumberToString(n) ==
    IF n.nan THEN <<"N", "a", "N">>
    ELSE IF n.val < 0 THEN <<"-">> \o DecimalStr(0 - n.val)
    ELSE DecimalStr(n.val)

\* BigInt(s): the integer, or a SyntaxError (ok = FALSE).
StringToBigInt(s) ==
    IF IsSignedDecimal(s) THEN [ok |-> TRUE, val |-> SignedVal(s)]
    ELSE [ok |-> FALSE, val |-> 0]

\* a % b of JavaScript for b > 0: the remainder takes the dividend's sign.
JsRem(a, b) == IF a >= 0 THEN a % b ELSE 0 - ((0 - a) % b)

\* arr[i] of JavaScript for an integer i: undefined outside 0..length-1.
At(arr, i) == IF i >= 0 /\ i < Len(arr) THEN arr[i + 1] ELSE Undefined

(***************************************************************************)
(* Identifiers the requests carry (the :fid route parameter).              *)
(***************************************************************************)
Fid1      == <<"1">>
Fid01     == <<"0", "1">>
FidText   == <<"a", "b", "c">>
FidNeg    == <<"-", "5">>
FidEdge   == <<"3", "2", "2", "1", "4", "4", "1", "6", "2">>
FidZero   == <<"0">>

RenderParams  == {Fid1, Fid01, FidText, FidNeg, FidEdge}
ComposeParams == {Fid1, FidText, FidNeg}

(***************************************************************************)
(* crypto.createHash('sha256').update(s).digest('hex'), as 16 groups of    *)
(* four hex digits, for the strings String(fid) that the modelled          *)
(* identifiers produce.  The digest of "322144162" holds the chunk         *)
(* ffffffff at hex digits 24..31.                                          *)
(***************************************************************************)
Sha256Hex(s) ==
    CASE s = <<"0">> ->
         \* 5feceb66ffc86f38d952786c6d696c79c2dbc239dd4e91b46729d73a27fb57e9
         <<24556, 60262, 65480, 28472, 55634, 30828, 28009, 27769,
           49883, 49721, 56654, 37300, 26409, 55098, 10235, 22505>>
      [] s = <<"1">> ->
         \* 6b86b273ff34fce19d6b804eff5a3f5747ada4eaa22f1d49c01e52ddb7875b4b
         <<27526, 45683, 65332, 64737, 40299, 32846, 65370, 16215,
           18349, 42218, 41519, 7497, 49182, 21213, 46983, 23371>>
      [] s = <<"-", "5">> ->
         \* 37aa1ccf80e481832b2db282d4d4f895ee1e31219b7d0f6aee8dc8968828341b
         <<14250, 7375, 32996, 33155, 11053, 45698, 54484, 63637,
           60958, 12577, 39805, 3946, 61069, 51350, 34856, 13339>>
      [] s = <<"N", "a", "N">> ->
         \* d5b592c05dc25b5032553f1b27f4139be95e881f73db33b02b05ab20c3f9981e
         <<54709, 37568, 24002, 23376, 12885, 16155, 10228, 5019,
           59742, 34847, 29659, 13232, 11013, 43808, 50169, 38942>>
      [] s = <<"3", "2", "2", "1", "4", "4", "1", "6", "2">> ->
         \* 2c3f26f96a3ac0051df4989bffffffff9fd64886c1dc4f9924d8fd6f0edb0484
         <<11327, 9977, 27194, 49157, 7668, 39067, 65535, 65535,
           40918, 18566, 49628, 20377, 9432, 64879, 3803, 1156>>

\* The 64 hex digits (as values 0..15) of a digest given in groups of four.
HexDigitsOf(groups) ==
    [k \in 1..(4 * Len(groups)) |->
        LET g == groups[((k - 1) \div 4) + 1]
            p == (k - 1) % 4
        IN  (g \div (16 ^ (3 - p))) % 16]

\* h.slice(a, b) for 0 <= a <= b.
Slice(h, a, b) ==
    SubSeq(h, a + 1, IF b < Len(h) THEN b ELSE Len(h))

(***************************************************************************)
(* Unsigned 32-bit values are pairs of 16-bit limbs [hi, lo]: TLC's        *)
(* integers end at 2^31 - 1.                                               *)
(***************************************************************************)
\* parseInt(ds, 16) for at most eight hex digits ds.
RECURSIVE ParseHex(_)
ParseHex(ds) ==
    IF ds = <<>> THEN [hi |-> 0, lo |-> 0]
    ELSE LET r == ParseHex(SubSeq(ds, 1, Len(ds) - 1))
         IN  [hi |-> (r.hi * 16 + r.lo \div 4096) % 65536,
              lo |-> (r.lo % 4096) * 16 + ds[Len(ds)]]

\* 0xffffffff, the divisor of prngFromFid.
U32Max == [hi |-> 65535, lo |-> 65535]

\* x * m for a small m, as limbs <<2^32s, 2^16s, units>>.
MulSmall(x, m) ==
    LET p0 == x.lo * m
        p1 == x.hi * m + p0 \div 65536
    IN  <<p1 \div 65536, p1 % 65536, p0 % 65536>>

LimbsLeq(a, b) ==
    \/ a[1] < b[1]
    \/ a[1] = b[1] /\ a[2] < b[2]
    \/ a[1] = b[1] /\ a[2] = b[2] /\ a[3] <= b[3]

\* Math.floor((x / 0xffffffff) * n) for a 32-bit x and 1 <= n: the k with
\* k * 0xffffffff <= x * n < (k + 1) * 0xffffffff.  (For the digests above and
\* n in 2..5 the double-precision product floors to the same integer.)
FloorScaled(x, n) ==
    CHOOSE k \in 0..n :
        /\ LimbsLeq(MulSmall(U32Max, k), MulSmall(x, n))
        /\ ~LimbsLeq(MulSmall(U32Max, k + 1), MulSmall(x, n))


(***************************************************************************)
(* render: prngFromFid, pickOne, renderWarpCatSVG (src/index.js 392-568)   *)
(***************************************************************************)
\* One call of the closure prngFromFid returns, with the digest h (hex
\* digits) and the closure variable i: the number returned is value/0xffffffff.
\* Fault variant of Rng: the cursor advances by 6 digits, not 8.
RngShortStep(h, i) ==
    LET chunk == Slice(h, i, i + 8)
    IN  [value |-> ParseHex(IF chunk = <<>> THEN <<0>> ELSE chunk),
         next  |-> (i + 6) % Len(h)]

Rng(h, i) ==
    LET chunk == Slice(h, i, i + 8)
    IN  [value |-> ParseHex(IF chunk = <<>> THEN <<0>> ELSE chunk),
         next  |-> (i + 8) % Len(h)]

\* pickOne(rng, arr), given the number r = value/0xffffffff that rng() returned.
PickOne(r, arr) == At(arr, FloorScaled(r, Len(arr)))

\* The option tables of renderWarpCatSVG in the order they are drawn from;
\* a palette is named by its bg1 colour.
Palettes  == <<"#2e026d", "#1b1b3a", "#190b28", "#111827", "#201a31">>
EyeStyles == <<"normal", "sleepy", "sharp">>
Glasses   == <<"none", "round", "visor", "aviator">>
Hats      == <<"none", "beanie", "cap", "headset">>
Necks     == <<"none", "scarf", "chain">>
Furs      == <<"short", "smooth", "long">>

Tables == <<Palettes, EyeStyles, Glasses, Hats, Necks, Furs>>

TraitNames == <<"pal", "eyes", "glasses", "hat", "neck", "fur">>

\* Fault variant of Cell: one module-level `i` shared by every generator.
CellShared(s) == 1

\* The closure variable `let i` belongs to the generator of one call.
Cell(s) == s

\* Fault variant of PrngFromFid: the generator is built once and its cursor
\* is kept from the slot's previous call.
PrngFromFidKeepsCursor(cur, s) == cur

\* The cursors after prngFromFid built the generator of the call in slot s
\* (`let i = 0`).
PrngFromFid(cur, s) == [cur EXCEPT ![Cell(s)] = 0]

\* rolls: what parseInt gave for each draw; picks: what pickOne returned.
IdleCall == [pc |-> "idle", param |-> <<>>, fid |-> <<>>, rolls |-> <<>>,
             picks |-> <<>>, status |-> 0]

SlotFree(r) == r.pc \in {"idle", "sent", "failed"}

\* GET /img/preview/:fid.svg up to the first draw: fid = Number(param),
\* renderWarpCatSVG(fid) builds its generator (digest of String(fid), i = 0).
GetPreviewSvg(s, p) ==
    /\ variant = "render"
    /\ SlotFree(calls[s])
    /\ calls' = [calls EXCEPT ![s] =
                    [pc |-> "drawing", param |-> p,
                     fid |-> NumberToString(ToNumber(p)),
                     rolls |-> <<>>, picks |-> <<>>, status |-> 0]]
    /\ cursor' = PrngFromFid(cursor, s)
    /\ UNCHANGED <<variant, miniVars, composeVars, selectVars, frameVars>>

\* The next pickOne(rng, table) of the call in slot s.
Draw(s) ==
    /\ variant = "render"
    /\ calls[s].pc = "drawing"
    /\ Len(calls[s].picks) < Len(Tables)
    /\ LET h == HexDigitsOf(Sha256Hex(calls[s].fid))
           r == Rng(h, cursor[Cell(s)])
           k == Len(calls[s].picks) + 1
       IN  /\ cursor' = [cursor EXCEPT ![Cell(s)] = r.next]
           /\ calls' = [calls EXCEPT ![s].rolls = Append(@, r.value),
                                     ![s].picks = Append(@, PickOne(r.value, Tables[k]))]
    /\ UNCHANGED <<variant, miniVars, composeVars, selectVars, frameVars>>

\* The template of renderWarpCatSVG and the response: reading pal.bg1 of an
\* undefined palette throws a TypeError, which Express answers with 500.
SendSvg(s) ==
    /\ variant = "render"
    /\ calls[s].pc = "drawing"
    /\ Len(calls[s].picks) = Len(Tables)
    /\ calls' = [calls EXCEPT ![s].pc = "sent",
                              ![s].status = IF calls[s].picks[1] = Undefined
                                            THEN 500 ELSE 200]
    /\ UNCHANGED <<variant, miniVars, cursor, composeVars, selectVars, frameVars>>

\* Calls of one generator the model follows.
MaxDraws == 20

\* The identifiers renderWarpCatSVG hashes for the route parameters, and 0.
RenderFids == {NumberToString(ToNumber(p)) : p \in RenderParams} \cup {FidZero}

\* One call rng() of the generator prngFromFid(fid) returned, outside any
\* renderWarpCatSVG call: the chunk read, where, and the number.
RngCall ==
    /\ variant = "rng"
    /\ Len(calls[1].rolls) < MaxDraws
    /\ LET h == HexDigitsOf(Sha256Hex(calls[1].fid))
           i == cursor[Cell(1)]
           r == Rng(h, i)
       IN  /\ cursor' = [cursor EXCEPT ![Cell(1)] = r.next]
           /\ calls' = [calls EXCEPT
                           ![1].rolls = Append(@, r.value),
                           ![1].picks = Append(@, [at |-> i, chunk |-> Slice(h, i, i + 8)])]
    /\ UNCHANGED <<variant, miniVars, composeVars, selectVars, frameVars>>

\* What renderWarpCatSVG draws for String(fid) = f when nothing else runs.
RECURSIVE DrawsFrom(_, _, _)
DrawsFrom(h, i, k) ==
    IF k > Len(Tables) THEN <<>>
    ELSE LET r == Rng(h, i)
         IN  <<PickOne(r.value, Tables[k])>> \o DrawsFrom(h, r.next, k + 1)

RenderAlone(f) == DrawsFrom(HexDigitsOf(Sha256Hex(f)), 0, 1)

(***************************************************************************)
(* compose: randFrom, ensureAsset, buildSvg, svgToPng and the image routes *)
(* (src/unnamed/part_001 61-190, src/unnamed/part_002 65-194)              *)
(***************************************************************************)
\* A path below ASSETS_DIR is <<directory, file>>; '' is the empty sequence.
NoPath == <<>>

BgNames == <<"neon_purple.svg", "hologrid.svg", "pink_grad.svg">>

Categories == <<"background", "body", "aura", "eyes", "mouth", "headgear", "accessory">>

Files ==
    {<<"background", BgNames[k]>> : k \in 1..Len(BgNames)} \cup
    {<<"body", "cat_base.svg">>, <<"aura", "none.svg">>, <<"eyes", "sharp.svg">>,
     <<"mouth", "smile.svg">>, <<"headgear", "bandana.svg">>,
     <<"accessory", "none.svg">>}

CatFiles(c) == {f \in Files : f[1] = c}

\* randFrom(arr, seed): BigInt(seed) throws a SyntaxError for text.
RandFrom(arr, seed) ==
    LET n == StringToBigInt(seed)
    IN  IF n.ok THEN [raised |-> FALSE, pick |-> At(arr, JsRem(n.val, Len(arr)))]
        ELSE [raised |-> TRUE, pick |-> Undefined]

\* Fault variant of EnsureAsset: the fallback is never tried.
EnsureAssetNoFallback(relPath, fallback, S) ==
    IF relPath \in S THEN <<relPath>> ELSE <<>>

\* ensureAsset(relPath, fallback) over the files S: the text of a file p is <<p>>.
EnsureAsset(relPath, fallback, S) ==
    IF relPath \in S THEN <<relPath>>
    ELSE IF fallback # NoPath /\ fallback \in S THEN <<fallback>>
    ELSE <<>>

\* Fault variant of Bgs: the filter also asks for the body asset.
BgsWhenBodyExists(S) ==
    SelectSeq(BgNames, LAMBDA f : <<"background", f>> \in S
                                  /\ <<"body", "cat_base.svg">> \in S)

\* The background names whose file exists (the filter of buildSvg).
Bgs(S) == SelectSeq(BgNames, LAMBDA f : <<"background", f>> \in S)

NoDoc == [raised |-> FALSE, bg |-> Undefined, layers |-> <<>>, label |-> <<>>]

\* Fault variant of LayerAssets: the headgear layer falls back to the body
\* asset (the fallback of the first call pasted into the fourth).
LayerAssetsHeadFallsBackToBody ==
    <<[rel |-> <<"body", "cat_base.svg">>,     fallback |-> <<"body", "cat_base.svg">>],
      [rel |-> <<"aura", "none.svg">>,         fallback |-> NoPath],
      [rel |-> <<"eyes", "sharp.svg">>,        fallback |-> <<"eyes", "sharp.svg">>],
      [rel |-> <<"mouth", "smile.svg">>,       fallback |-> <<"mouth", "smile.svg">>],
      [rel |-> <<"headgear", "bandana.svg">>,  fallback |-> <<"body", "cat_base.svg">>],
      [rel |-> <<"accessory", "none.svg">>,    fallback |-> NoPath]>>

\* The six fixed layers of buildSvg in the order of the template, each with
\* the arguments of its ensureAsset call.
LayerAssets ==
    <<[rel |-> <<"body", "cat_base.svg">>,     fallback |-> <<"body", "cat_base.svg">>],
      [rel |-> <<"aura", "none.svg">>,         fallback |-> NoPath],
      [rel |-> <<"eyes", "sharp.svg">>,        fallback |-> <<"eyes", "sharp.svg">>],
      [rel |-> <<"mouth", "smile.svg">>,       fallback |-> <<"mouth", "smile.svg">>],
      [rel |-> <<"headgear", "bandana.svg">>,  fallback |-> NoPath],
      [rel |-> <<"accessory", "none.svg">>,    fallback |-> NoPath]>>

BgFallback == <<"background", "neon_purple.svg">>

\* buildSvg(fid) over the files S: the background layer, the six fixed layers
\* (in the order of Categories), then the label.
BuildSvg(fid, S) ==
    LET bgs   == Bgs(S)
        draw  == IF Len(bgs) > 0 THEN RandFrom(bgs, fid)
                 ELSE [raised |-> FALSE, pick |-> "neon_purple.svg"]
        fixed == [k \in 1..Len(LayerAssets) |->
                    EnsureAsset(LayerAssets[k].rel, LayerAssets[k].fallback, S)]
        bgSvg == EnsureAsset(<<"background", draw.pick>>, BgFallback, S)
    IN  IF draw.raised
        THEN [raised |-> TRUE, bg |-> Undefined, layers |-> <<>>, label |-> <<>>]
        ELSE [raised |-> FALSE, bg |-> draw.pick,
              layers |-> <<bgSvg>> \o fixed, label |-> fid]

\* One element of a document: an opening or closing tag of the template, a
\* pasted fragment (of = its file) or the label (of = the identifier).
Tok(tag, of) == [tag |-> tag, of |-> of]

\* The text of asset file p as readFileSync returns it, W being the files that
\* are documents of their own (an <svg> root around the drawing).
FileText(p, W) ==
    IF p \in W
    THEN <<Tok("svg", NoPath), Tok("frag", p), Tok("/svg", NoPath)>>
    ELSE <<Tok("frag", p)>>

\* What the template interpolates for one layer: the text ensureAsset
\* returned, '' when it found no file.
Pasted(layer, W) == IF layer = <<>> THEN <<>> ELSE FileText(layer[1], W)

RECURSIVE PastedAll(_, _)
PastedAll(layers, W) ==
    IF layers = <<>> THEN <<>>
    ELSE Pasted(layers[1], W) \o PastedAll(Tail(layers), W)

\* Fault variant of Document: the label is written before the layers.
DocumentLabelFirst(out, W) ==
    <<Tok("svg", NoPath), Tok("defs", NoPath)>>
    \o <<Tok("text", NoPath), Tok("label", out.label), Tok("/text", NoPath)>>
    \o <<Tok("g", NoPath)>> \o Pasted(out.layers[1], W) \o <<Tok("/g", NoPath)>>
    \o <<Tok("g", NoPath)>> \o PastedAll(Tail(out.layers), W) \o <<Tok("/g", NoPath)>>
    \o <<Tok("/svg", NoPath)>>

\* The template literal of buildSvg filled with the document out.
Document(out, W) ==
    <<Tok("svg", NoPath), Tok("defs", NoPath)>>
    \o <<Tok("g", NoPath)>> \o Pasted(out.layers[1], W) \o <<Tok("/g", NoPath)>>
    \o <<Tok("g", NoPath)>> \o PastedAll(Tail(out.layers), W) \o <<Tok("/g", NoPath)>>
    \o <<Tok("text", NoPath), Tok("label", out.label), Tok("/text", NoPath)>>
    \o <<Tok("/svg", NoPath)>>

\* The template literal of renderWarpCatSVG for the drawn picks (palette,
\* eyes, glasses, hat, neck, fur): gradient and grid, the fixed ears and head,
\* the five trait drawings, the title.
RenderDocument(picks, fid) ==
    <<Tok("svg", NoPath), Tok("defs", <<"palette", picks[1]>>),
      Tok("rect", NoPath), Tok("g", NoPath), Tok("/g", NoPath),
      Tok("frag", <<"ears", "fixed">>), Tok("frag", <<"head", "fixed">>),
      Tok("frag", <<"fur", picks[6]>>), Tok("frag", <<"eyes", picks[2]>>),
      Tok("frag", <<"glasses", picks[3]>>), Tok("frag", <<"hat", picks[4]>>),
      Tok("frag", <<"neck", picks[5]>>),
      Tok("text", NoPath), Tok("label", fid), Tok("/text", NoPath),
      Tok("/svg", NoPath)>>

\* The image routes in the order part_002 registers them.
Routes ==
    <<[method |-> "GET",  path |-> "png", handler |-> "getPng"],
      [method |-> "HEAD", path |-> "png", handler |-> "headPng"],
      [method |-> "GET",  path |-> "svg", handler |-> "getSvg"]>>

\* Fault variant of Dispatch: the route registered for exactly the request's
\* method runs (as if app.head() came before app.get()).
DispatchByMethod(m, path) ==
    LET k == CHOOSE k \in 1..Len(Routes) :
                Routes[k].path = path /\ Routes[k].method = m
    IN  Routes[k].handler

\* Express runs the first registered route whose path matches and which
\* handles the method; a route that has only a GET handler handles HEAD too
\* (Route.prototype._handles_method), so app.head() takes effect only when it
\* is registered before app.get() for the same path.
Dispatch(m, path) ==
    LET hit(k) == /\ Routes[k].path = path
                  /\ \/ Routes[k].method = m
                     \/ m = "HEAD" /\ Routes[k].method = "GET"
        first == CHOOSE k \in 1..Len(Routes) :
                    hit(k) /\ \A j \in 1..(k - 1) : ~hit(j)
    IN  Routes[first].handler

\* The status a handler answers with when buildSvg or svgToPng throws: the
\* catch blocks of the png handlers; Express's error handler for getSvg.
StatusOnError(handler) == IF handler = "headPng" THEN 200 ELSE 500

IdleReq == [pc |-> "idle", method |-> "", path |-> "", handler |-> "",
            fid |-> <<>>, out |-> NoDoc, status |-> 0]

\* GET /img/preview/:fid.svg: fid = String(param), buildSvg, send.
GetSvg(s, p) ==
    /\ variant = "compose"
    /\ SlotFree(reqs[s])
    /\ LET h   == Dispatch("GET", "svg")
           out == BuildSvg(p, store)
       IN  reqs' = [reqs EXCEPT ![s] =
                       [pc |-> "sent", method |-> "GET", path |-> "svg",
                        handler |-> h, fid |-> p, out |-> out,
                        status |-> IF out.raised THEN StatusOnError(h) ELSE 200]]
    /\ UNCHANGED <<variant, miniVars, store, renderVars, selectVars, frameVars>>

\* GET or HEAD /img/preview/:fid.png up to `await svgToPng(svg)`.
RequestPng(s, m, p) ==
    /\ variant = "compose"
    /\ SlotFree(reqs[s])
    /\ LET h   == Dispatch(m, "png")
           out == BuildSvg(p, store)
       IN  reqs' = [reqs EXCEPT ![s] =
                       [pc |-> IF out.raised THEN "sent" ELSE "await",
                        method |-> m, path |-> "png", handler |-> h,
                        fid |-> p, out |-> out,
                        status |-> IF out.raised THEN StatusOnError(h) ELSE 0]]
    /\ UNCHANGED <<variant, miniVars, store, renderVars, selectVars, frameVars>>

\* svgToPng resolves: the handler sends the image.
PngResolved(s) ==
    /\ variant = "compose"
    /\ reqs[s].pc = "await"
    /\ reqs' = [reqs EXCEPT ![s].pc = "sent", ![s].status = 200]
    /\ UNCHANGED <<variant, miniVars, store, renderVars, selectVars, frameVars>>

\* svgToPng rejects (sharp cannot rasterize the document): the catch block.
PngRejected(s) ==
    /\ variant = "compose"
    /\ reqs[s].pc = "await"
    /\ reqs' = [reqs EXCEPT ![s].pc = "failed",
                            ![s].status = StatusOnError(reqs[s].handler)]
    /\ UNCHANGED <<variant, miniVars, store, renderVars, selectVars, frameVars>>

(***************************************************************************)
(* The trait selector of spec.md section 4.1, selectTraits(identifier,     *)
(* tables, order, rules).  The repository's README and TRAITS_DIR announce *)
(* the trait tables, but the code that draws by weight and applies the     *)
(* rules is not among the source files, so this part follows the spec.     *)
(* The identifier enters through the numbers its digest chunks yield: the  *)
(* draw for category k is draws[k] / RngGrain, a number in [0,1).          *)
(***************************************************************************)
\* The generator's numbers are the multiples of 1/RngGrain below 1.
RngGrain == 4

Null == "null"          \* a category unset by a rule
EmptyPick == "none"     \* the selection of a category whose table is empty

Order == <<"body", "eyes", "headgear", "aura">>

\* Two configurations of the example of spec.md section 8 (eyes: five
\* weighted options, conflict rule "if eyes = laser deny headgear in
\* {headset}"); they differ in the position of headset in its table.
SelectConfigs == {"headsetSecond", "headsetFirst"}

TableOf(cfg, cat) ==
    CASE cat = "body" ->
           <<[id |-> "plain", weight |-> 1], [id |-> "gold", weight |-> 1],
             [id |-> "silver", weight |-> 2]>>
      [] cat = "eyes" ->
           <<[id |-> "normal", weight |-> 2], [id |-> "laser", weight |-> 2],
             [id |-> "sleepy", weight |-> 1], [id |-> "sharp", weight |-> 2],
             [id |-> "wink", weight |-> 1]>>
      [] cat = "headgear" ->
           IF cfg = "headsetFirst"
           THEN <<[id |-> "headset", weight |-> 1], [id |-> "cap", weight |-> 1],
                  [id |-> "crown", weight |-> 2]>>
           ELSE <<[id |-> "cap", weight |-> 1], [id |-> "headset", weight |-> 1],
                  [id |-> "crown", weight |-> 2]>>
      [] cat = "aura" ->
           <<[id |-> "glow", weight |-> 0], [id |-> "halo", weight |-> 0]>>

\* Conflict rules: if the option of `cat` is in `ids`, unset every category
\* of `deny` whose option is in its denied set.
ConflictRules ==
    <<[cat |-> "eyes", ids |-> {"laser"},
       deny |-> [c \in {"headgear"} |-> {"headset"}]],
      [cat |-> "eyes", ids |-> {"sharp"},
       deny |-> [c \in {"headgear"} |-> {"crown"}]]>>

\* Requirement rules: if the option of `cat` is in `ids`, the option of
\* `target` must be in `allowed`, else it is unset.
RequirementRules ==
    <<[cat |-> "headgear", ids |-> {"crown"}, target |-> "body",
       allowed |-> {"gold"}]>>

RECURSIVE TotalWeight(_)
TotalWeight(t) ==
    IF t = <<>> THEN 0 ELSE t[1].weight + TotalWeight(Tail(t))

\* Fault variant of WeightedDraw: the loop stops at r < 0 instead of r <= 0.
WeightedDrawStrict(t, u) ==
    IF t = <<>> THEN EmptyPick
    ELSE LET total == TotalWeight(t)
             hit(j) == u * total < RngGrain * TotalWeight(SubSeq(t, 1, j))
         IN  IF \E j \in 1..Len(t) : hit(j)
             THEN t[CHOOSE j \in 1..Len(t) : hit(j) /\ \A i \in 1..(j - 1) : ~hit(i)].id
             ELSE t[Len(t)].id

\* Step 3: "none" for an empty table; else r = (u / RngGrain) * totalWeight,
\* subtract the weights in table order until r <= 0; the last option when
\* the list is exhausted.  (r minus the first j weights is <= 0 iff
\* u * total <= RngGrain * (their sum).)
WeightedDraw(t, u) ==
    IF t = <<>> THEN EmptyPick
    ELSE LET total == TotalWeight(t)
             hit(j) == u * total <= RngGrain * TotalWeight(SubSeq(t, 1, j))
         IN  IF \E j \in 1..Len(t) : hit(j)
             THEN t[CHOOSE j \in 1..Len(t) : hit(j) /\ \A i \in 1..(j - 1) : ~hit(i)].id
             ELSE t[Len(t)].id

\* Step 4, one rule applied to the selection pick.
ApplyConflict(rule, pick) ==
    IF rule.cat \in DOMAIN pick /\ pick[rule.cat] \in rule.ids
    THEN [c \in DOMAIN pick |->
            IF c \in DOMAIN rule.deny /\ pick[c] \in rule.deny[c]
            THEN Null ELSE pick[c]]
    ELSE pick

\* Step 5, one rule applied to the selection pick.
ApplyRequirement(rule, pick) ==
    IF /\ rule.cat \in DOMAIN pick
       /\ pick[rule.cat] \in rule.ids
       /\ rule.target \in DOMAIN pick
       /\ pick[rule.target] \notin rule.allowed
    THEN [pick EXCEPT ![rule.target] = Null]
    ELSE pick

RECURSIVE ApplyAll(_, _, _)
ApplyAll(Op(_, _), rules, pick) ==
    IF rules = <<>> THEN pick
    ELSE ApplyAll(Op, Tail(rules), Op(rules[1], pick))

\* Step 6: every category left unset gets the first entry of its table.
FallbackFill(cfg, pick) ==
    [c \in DOMAIN pick |->
        IF pick[c] = Null /\ Len(TableOf(cfg, c)) > 0
        THEN TableOf(cfg, c)[1].id ELSE pick[c]]

CatSet == {Order[k] : k \in 1..Len(Order)}

IdleSel == [pc |-> "idle", cfg |-> "", draws |-> <<>>, drawn |-> <<>>,
            pick |-> [c \in CatSet |-> Null]]

\* Step 3 for the next category of Order.
DrawCategory ==
    /\ sel.pc = "draw"
    /\ LET k == Len(sel.drawn) + 1
           o == WeightedDraw(TableOf(sel.cfg, Order[k]), sel.draws[k])
       IN  sel' = [sel EXCEPT !.drawn = Append(@, o),
                              !.pick = [@ EXCEPT ![Order[k]] = o],
                              !.pc = IF k = Len(Order) THEN "conflicts" ELSE "draw"]
    /\ UNCHANGED <<variant, miniVars, renderVars, composeVars, frameVars>>

\* Fault variant of ApplyConflicts: the requirement rules are evaluated
\* where the conflict rules should be.
ApplyRequirementsFirst ==
    /\ sel.pc = "conflicts"
    /\ sel' = [sel EXCEPT !.pick = ApplyAll(ApplyRequirement, RequirementRules, @),
                          !.pc = "requirements"]
    /\ UNCHANGED <<variant, miniVars, renderVars, composeVars, frameVars>>

ApplyConflicts ==
    /\ sel.pc = "conflicts"
    /\ sel' = [sel EXCEPT !.pick = ApplyAll(ApplyConflict, ConflictRules, @),
                          !.pc = "requirements"]
    /\ UNCHANGED <<variant, miniVars, renderVars, composeVars, frameVars>>

ApplyRequirements ==
    /\ sel.pc = "requirements"
    /\ sel' = [sel EXCEPT !.pick = ApplyAll(ApplyRequirement, RequirementRules, @),
                          !.pc = "fill"]
    /\ UNCHANGED <<variant, miniVars, renderVars, composeVars, frameVars>>

FillAndReturn ==
    /\ sel.pc = "fill"
    /\ sel' = [sel EXCEPT !.pick = FallbackFill(sel.cfg, @), !.pc = "done"]
    /\ UNCHANGED <<variant, miniVars, renderVars, composeVars, frameVars>>

(***************************************************************************)
(* "render": the frame routes and the route table of src/index.js 370-706  *)
(***************************************************************************)
\* Longest fids array the model follows.
MaxMinted == 3

\* A request without a fid in its body (or with an empty one).
Missing == <<>>

\* 2^53 and 2^53 + 1 as decimal literals.
FidPow53 == <<"9","0","0","7","1","9","9","2","5","4","7","4","0","9","9","2">>
FidPow53Plus1 == <<"9","0","0","7","1","9","9","2","5","4","7","4","0","9","9","3">>

MintBodies == {Missing, Fid1, Fid01, FidZero, FidText, FidNeg, FidPow53, FidPow53Plus1}

\* A digit string without its leading zeros.
RECURSIVE StripZeros(_)
StripZeros(s) == IF Len(s) > 1 /\ s[1] = "0" THEN StripZeros(Tail(s)) ELSE s

\* a < b for digit strings without leading zeros.
RECURSIVE DigitsLess(_, _)
DigitsLess(a, b) ==
    IF Len(a) # Len(b) THEN Len(a) < Len(b)
    ELSE IF a = <<>> THEN FALSE
    ELSE IF a[1] # b[1] THEN DigitVal(a[1]) < DigitVal(b[1])
    ELSE DigitsLess(Tail(a), Tail(b))

\* m + 1 for a digit string m.
RECURSIVE Increment(_)
Increment(m) ==
    IF m = <<>> THEN <<"1">>
    ELSE IF m[Len(m)] = "9" THEN Increment(SubSeq(m, 1, Len(m) - 1)) \o <<"0">>
    ELSE SubSeq(m, 1, Len(m) - 1) \o <<Digits[DigitVal(m[Len(m)]) + 2]>>

\* The integer nearest to m that a double holds, for m below 2^54: m itself
\* up to 2^53; above, the even integers are held and an odd m is a tie that
\* goes to the neighbour divisible by 4 (even mantissa).
RoundToDouble(m) ==
    IF ~DigitsLess(FidPow53, m) THEN m
    ELSE LET d0 == DigitVal(m[Len(m)])
             d1 == DigitVal(m[Len(m) - 1])
         IN  IF d0 % 2 = 0 THEN m
             ELSE IF (10 * d1 + d0) % 4 = 1
                  THEN SubSeq(m, 1, Len(m) - 1) \o <<Digits[d0]>>
                  ELSE Increment(m)

\* A decimal integer literal in normal form: no leading zeros, no "-0".
Normal(neg, m) == IF neg /\ m # <<"0">> THEN <<"-">> \o m ELSE m

\* The integer a body fid spells, in normal form (the default is 0); a fid
\* that spells no integer stands for itself.
ExactInt(b) ==
    IF b = Missing THEN <<"0">>
    ELSE IF b[1] = "-" THEN Normal(TRUE, StripZeros(Tail(b)))
    ELSE Normal(FALSE, StripZeros(b))

\* Number(fid) for the fid of a request body; the default 0 and '' give 0.
\* val is the decimal expansion of the double.
BodyFid(b) ==
    IF b = Missing THEN [nan |-> FALSE, val |-> <<"0">>]
    ELSE IF ~IsSignedDecimal(b) THEN [nan |-> TRUE, val |-> <<>>]
    ELSE IF b[1] = "-"
         THEN [nan |-> FALSE, val |-> Normal(TRUE, RoundToDouble(StripZeros(Tail(b))))]
         ELSE [nan |-> FALSE, val |-> Normal(FALSE, RoundToDouble(StripZeros(b)))]

\* JSON.stringify of a number, then JSON.parse: NaN is written as null.
JsonRoundTrip(n) ==
    IF n.nan THEN [null |-> TRUE, val |-> <<>>] ELSE [null |-> FALSE, val |-> n.val]

\* minted.includes(n) on the array loadMinted() parsed (SameValueZero): null
\* equals no number.
Includes(arr, n) ==
    \E k \in 1..Len(arr) : ~arr[k].null /\ ~n.nan /\ arr[k].val = n.val

\* saveMinted(fids) followed by the file's content as loadMinted() parses it;
\* fids is the parsed array with the number n pushed.
SaveMinted(arr, n) == Append(arr, JsonRoundTrip(n))

\* The routes of the server in registration order.  dir: the literal path
\* segments; leaf: a parameter segment follows; ext: its literal suffix.
AppRoutes ==
    <<[method |-> "GET",  dir |-> <<"health">>,           leaf |-> FALSE, ext |-> "",     handler |-> "health"],
      [method |-> "GET",  dir |-> <<"frame">>,            leaf |-> FALSE, ext |-> "",     handler |-> "frame"],
      [method |-> "POST", dir |-> <<"frame", "preview">>, leaf |-> FALSE, ext |-> "",     handler |-> "framePreview"],
      [method |-> "POST", dir |-> <<"frame", "mint">>,    leaf |-> FALSE, ext |-> "",     handler |-> "frameMint"],
      [method |-> "GET",  dir |-> <<"img", "preview">>,   leaf |-> TRUE,  ext |-> ".svg", handler |-> "previewSvg"],
      [method |-> "GET",  dir |-> <<"static">>,           leaf |-> TRUE,  ext |-> "",     handler |-> "static"],
      [method |-> "GET",  dir |-> <<"dev">>,              leaf |-> FALSE, ext |-> "",     handler |-> "dev"]>>

NoRoute == "none"

Matches(route, m, dir, leaf, ext) ==
    /\ route.method = m
    /\ route.dir = dir
    /\ route.leaf = leaf
    /\ route.ext \in {"", ext}

\* The handler Express runs: the first registered route that matches, none
\* when no route does (the final handler answers 404).
HandlerOf(m, dir, leaf, ext) ==
    LET hits == {k \in 1..Len(AppRoutes) : Matches(AppRoutes[k], m, dir, leaf, ext)}
    IN  IF hits = {} THEN NoRoute
        ELSE AppRoutes[CHOOSE k \in hits : \A j \in hits : k <= j].handler

ImageDirs == {<<"img", "preview">>, <<"render">>}

ImageParams == {Fid1, FidText}

IdleResp == [handler |-> "", dir |-> <<>>, fid |-> <<>>, status |-> 0,
             doc |-> <<>>, title |-> "", button |-> ""]

\* GET <dir>/<p>.svg, handled in one step (the handler is synchronous).
GetImage(dir, p) ==
    /\ variant = "render"
    /\ LET h     == HandlerOf("GET", dir, TRUE, ".svg")
           fid   == NumberToString(ToNumber(p))
           picks == RenderAlone(fid)
       IN  resp' = IF h = "previewSvg"
                   THEN IF picks[1] = Undefined
                        THEN [IdleResp EXCEPT !.handler = h, !.dir = dir,
                                              !.fid = fid, !.status = 500]
                        ELSE [IdleResp EXCEPT !.handler = h, !.dir = dir,
                                              !.fid = fid, !.status = 200,
                                              !.doc = RenderDocument(picks, fid)]
                   ELSE [IdleResp EXCEPT !.handler = h, !.dir = dir,
                                         !.fid = fid, !.status = 404]
    /\ UNCHANGED <<variant, miniVars, renderVars, composeVars, selectVars, minted, mintLog>>

\* POST /frame/preview with body fid b: loadMinted, includes, the answer.
PostFramePreview(b) ==
    /\ variant = "render"
    /\ LET already == Includes(minted, BodyFid(b))
       IN  resp' = [IdleResp EXCEPT
                       !.handler = HandlerOf("POST", <<"frame", "preview">>, FALSE, ""),
                       !.dir = <<"frame", "preview">>, !.fid = b, !.status = 200,
                       !.title = "Your WarpCat Preview",
                       !.button = IF already THEN "Already Minted - View" ELSE "Mint"]
    /\ UNCHANGED <<variant, miniVars, renderVars, composeVars, selectVars, minted, mintLog>>

\* POST /frame/mint with body fid b: loadMinted, includes, push and
\* saveMinted, the answer.
PostFrameMint(b) ==
    /\ variant = "render"
    /\ Len(minted) < MaxMinted
    /\ mintLog' = mintLog \cup {ExactInt(b)}
    /\ LET n       == BodyFid(b)
           already == Includes(minted, n)
       IN  /\ minted' = IF already THEN minted ELSE SaveMinted(minted, n)
           /\ resp' = [IdleResp EXCEPT
                          !.handler = HandlerOf("POST", <<"frame", "mint">>, FALSE, ""),
                          !.dir = <<"frame", "mint">>, !.fid = b, !.status = 200,
                          !.title = IF already THEN "Already Minted"
                                    ELSE "WarpCat Minted",
                          !.button = "Back"]
    /\ UNCHANGED <<variant, miniVars, renderVars, composeVars, selectVars>>

(***************************************************************************)
(* The mini-app server: src/index.js 1-368 ("mini") and part_003           *)
(* ("mini3"), and the /frame/tx routes of part_002 ("compose").            *)
(*                                                                         *)
(* `env` is the process environment: secret is NEYNAR_WEBHOOK_SECRET,      *)
(* apiKey is NEYNAR_API_KEY, contract is CONTRACT_ADDRESS, selector is     *)
(* MINT_SELECTOR, walletId and domain are read by the association script.  *)
(* An unset variable is the empty string, as `process.env.X || ''` makes   *)
(* it.  bodyDefault is what req.body holds when no parser filled it: an    *)
(* empty object under Express 4 and undefined under Express 5; the         *)
(* repository pins no version.  MINT_PRICE_WEI is left at its default, a   *)
(* decimal literal that toHex converts.                                    *)
(***************************************************************************)
NoEnv ==
    [secret |-> "", apiKey |-> "", contract |-> <<>>, selector |-> <<>>,
     bodyDefault |-> "object", walletId |-> "", domain |-> <<>>]

HexChars ==
    <<"0", "1", "2", "3", "4", "5", "6", "7", "8", "9",
      "a", "b", "c", "d", "e", "f">>

IsHexChar(c) == \E i \in 1..16 : HexChars[i] = c

\* s.toLowerCase() over the letters the configured values carry.
LowerChar(c) ==
    LET upper == <<"A", "B", "C", "D", "E", "F">>
    IN  IF \E i \in 1..6 : upper[i] = c
        THEN HexChars[10 + (CHOOSE i \in 1..6 : upper[i] = c)]
        ELSE c

Lower(s) == [k \in DOMAIN s |-> LowerChar(s[k])]

\* n.toString(16) for a BigInt n.
RECURSIVE BigIntToString16(_)
BigIntToString16(n) ==
    IF n < 0 THEN <<"-">> \o BigIntToString16(0 - n)
    ELSE IF n < 16 THEN <<HexChars[n + 1]>>
    ELSE BigIntToString16(n \div 16) \o <<HexChars[(n % 16) + 1]>>

\* s.padStart(n, c)
PadStart(s, n, c) ==
    IF Len(s) >= n THEN s ELSE [k \in 1..(n - Len(s)) |-> c] \o s

\* The width uint256Hex pads to.
WordDigits == 64

uint256Hex(n) == <<"0", "x">> \o PadStart(BigIntToString16(n), WordDigits, "0")

\* The values MINT_SELECTOR is configured with: unset, a selector in upper
\* case, one that is too short, and ten characters that are not hexadecimal.
Selectors ==
    {<<>>,
     <<"0", "x", "A", "0", "7", "1", "2", "D", "6", "8">>,
     <<"0", "x", "a", "0", "7", "1">>,
     <<"0", "x", "z", "z", "z", "z", "z", "z", "z", "z">>}

\* MINT_SELECTOR as the file computes it: a constant in part_003, read from
\* the environment elsewhere.
MINT_SELECTOR(file, e) ==
    IF file = "mini3" THEN <<"0", "x", "a", "0", "7", "1", "2", "d", "6", "8">>
    ELSE Lower(e.selector)

\* /^0x[0-9a-f]{8}$/i.test(s)
SelectorPattern(s) ==
    /\ Len(s) = 10
    /\ s[1] = "0" /\ s[2] = "x"
    /\ \A k \in 3..10 : IsHexChar(LowerChar(s[k]))

\* buildMintData(fidStr) of each file: the call data, or the exception that
\* leaves the function.
buildMintData(file, selector, fidStr) ==
    LET fid  == StringToBigInt(IF fidStr = <<>> THEN <<"0">> ELSE fidStr)
        data == Lower(selector \o SubSeq(uint256Hex(fid.val), 3, Len(uint256Hex(fid.val))))
    IN  IF file = "mini"
        THEN IF selector = <<>> THEN [raised |-> FALSE, text |-> <<"0", "x">>]
             ELSE IF ~SelectorPattern(selector) THEN [raised |-> FALSE, text |-> <<"0", "x">>]
             ELSE IF fid.ok THEN [raised |-> FALSE, text |-> data]
             ELSE [raised |-> FALSE, text |-> selector]
        ELSE IF file = "mini3"
        THEN IF fid.ok THEN [raised |-> FALSE, text |-> data]
             ELSE [raised |-> FALSE, text |-> selector]
        ELSE IF selector = <<>> \/ Len(selector) # 10
                  \/ SubSeq(selector, 1, 2) # <<"0", "x">>
             THEN [raised |-> FALSE, text |-> <<"0", "x">>]
             ELSE IF fid.ok THEN [raised |-> FALSE, text |-> data]
             ELSE [raised |-> TRUE, text |-> <<>>]

(***************************************************************************)
(* Request bodies.  A body is absent or a JSON object, written as the      *)
(* sequence of its members <<key, value>>.                                 *)
(***************************************************************************)
NoBody == [present |-> FALSE, members |-> <<>>]

\* No body, a body with a type and a body with a fid.
Bodies ==
    {NoBody,
     [present |-> TRUE, members |-> <<<<"type", <<"c", "a", "s", "t">>>>>>],
     [present |-> TRUE, members |-> <<<<"fid", <<"7">>>>>>]}

\* req.body as the handler finds it after express.urlencoded and express.json.
ReqBody(e, body) ==
    IF body.present THEN [defined |-> TRUE, members |-> body.members]
    ELSE [defined |-> e.bodyDefault = "object", members |-> <<>>]

\* req.body?.key, the empty string standing for an absent member.
Member(rb, key) ==
    IF rb.defined /\ \E k \in DOMAIN rb.members : rb.members[k][1] = key
    THEN rb.members[CHOOSE k \in DOMAIN rb.members : rb.members[k][1] = key][2]
    ELSE <<>>

\* JSON.stringify of an object with string members.
RECURSIVE StringifyMembers(_)
StringifyMembers(ms) ==
    IF ms = <<>> THEN <<>>
    ELSE <<"\"", ms[1][1], "\"", ":", "\"">> \o ms[1][2] \o <<"\"">>
         \o (IF Len(ms) > 1 THEN <<",">> ELSE <<>>)
         \o StringifyMembers(Tail(ms))

Stringify(ms) == <<"{">> \o StringifyMembers(ms) \o <<"}">>

\* crypto.createHmac('sha256', key).update(msg).digest('hex'): a value that
\* determines the key and the message it was computed from.
Hmac(key, msg) == <<"hmac", key>> \o msg

\* The x-neynar-signature headers a caller sends: none (the empty header),
\* or the digest of a body under the configured secret or under another key.
Signatures ==
    {<<>>}
    \cup {Hmac(k, Stringify(b.members)) : k \in {"whsec", "other"},
                                          b \in Bodies \ {NoBody}}
    \cup {Hmac("whsec", Stringify(<<>>))}

IdleOut ==
    [pc |-> "idle", route |-> "none", method |-> "none", query |-> <<>>,
     body |-> NoBody, sig |-> <<>>, reply |-> "none",
     status |-> 0, payload |-> [kind |-> "none"], raised |-> FALSE]

\* The handler of POST /neynar/webhook.  Under a configured secret part_003
\* passes JSON.stringify(req.body) to update(), which throws a TypeError for
\* undefined; index.js serialises `req.body || {}`.  The catch block of both
\* answers 200.
Webhook(file, e, rb, sig) ==
    LET bodyStr == IF file = "mini" \/ rb.defined THEN Stringify(rb.members)
                   ELSE <<>>
        throws  == file = "mini3" /\ ~rb.defined /\ e.secret # ""
    IN  IF throws
        THEN [status |-> 200, payload |-> [kind |-> "ok", ok |-> TRUE],
              raised |-> TRUE]
        ELSE IF e.secret # "" /\ sig # Hmac(e.secret, bodyStr)
        THEN [status |-> 401, payload |-> [kind |-> "ok", ok |-> FALSE],
              raised |-> FALSE]
        ELSE [status |-> 200, payload |-> [kind |-> "ok", ok |-> TRUE],
              raised |-> FALSE]

PostWebhook(body, sig) ==
    /\ variant \in {"mini", "mini3"}
    /\ conn.pc \in {"idle", "done"}
    /\ LET r == Webhook(variant, env, ReqBody(env, body), sig)
       IN  conn' = [IdleOut EXCEPT !.pc = "done", !.route = "/neynar/webhook",
                       !.method = "POST", !.body = body, !.sig = sig,
                       !.status = r.status, !.payload = r.payload,
                       !.raised = r.raised]
    /\ UNCHANGED <<variant, env, script, renderVars, composeVars, selectVars,
                   frameVars>>

(***************************************************************************)
(* Frame and transaction routes                                            *)
(***************************************************************************)
\* What api.neynar.com answers to a validation request: a 2xx reply whose
\* JSON has valid or is_valid true, a 2xx reply without either, a non-2xx
\* reply, a 2xx reply whose body is no JSON, or no reply (fetch rejects).
NeynarOutcomes == {"valid", "isValid", "notValid", "non2xx", "unparsable", "network"}

\* validateWithNeynar(payload).ok for a finished call
validateWithNeynarAnyReply(apiKey, reply) ==
    IF apiKey = "" THEN TRUE
    ELSE reply \in {"valid", "isValid", "notValid"}

validateWithNeynar(apiKey, reply) ==
    IF apiKey = "" THEN TRUE
    ELSE reply \in {"valid", "isValid"}

\* CHAIN_ID with the CHAIN_ID variable unset.
CHAIN_ID == "eip155:8453"

CONTRACT_ADDRESS(e) == Lower(e.contract)

\* The values CONTRACT_ADDRESS is configured with: unset, or an address in
\* mixed case.
Contracts == {<<>>, <<"0", "x", "A", "b", "C", "1">>}

Or(a, b) == IF a # <<>> THEN a ELSE b

ErrorPayload(text) == [kind |-> "error", error |-> text]

TxPayload(e, data) ==
    [kind |-> "tx", chainId |-> CHAIN_ID, method |-> "eth_sendTransaction",
     to |-> CONTRACT_ADDRESS(e), data |-> data]

Answer(status, payload) == [status |-> status, payload |-> payload, raised |-> FALSE]

\* handleTx of index.js and app.all('/mini/tx') of part_003, from the point
\* where validateWithNeynar has returned v.  part_003 reads the fid of the
\* body from its untrustedData member, which no body of Bodies has.
handleTx(file, e, m, q, rb, ok) ==
    LET fid == Or(q, Or(IF file = "mini" THEN Member(rb, "fid")
                        ELSE Member(rb, "untrustedData"), <<"0">>))
    IN  IF m = "POST" /\ ~ok
        THEN Answer(401, ErrorPayload(IF file = "mini" THEN "neynar_validation_failed"
                                      ELSE "invalid"))
        ELSE IF CONTRACT_ADDRESS(e) = <<>>
        THEN Answer(500, ErrorPayload(IF file = "mini" THEN "CONTRACT_ADDRESS missing"
                                      ELSE "no contract"))
        ELSE Answer(200, TxPayload(e, buildMintData(file, MINT_SELECTOR(file, e), fid).text))

\* handleMiniFrame of index.js and handleFrame of part_003, likewise.
handleMiniFrame(file, e, m, q, rb, ok) ==
    LET fid == Or(q, Or(Member(rb, "fid"), <<"0">>))
    IN  IF m = "POST" /\ ~ok
        THEN Answer(401, ErrorPayload(IF file = "mini" THEN "neynar_validation_failed"
                                      ELSE "invalid"))
        ELSE Answer(200, [kind |-> "frame", fid |-> fid])

\* The frame and transaction routes each file registers.
MiniRoutes(file) ==
    {"/mini/tx", IF file = "mini" THEN "/mini/frame" ELSE "/frame/mint"}

Handle(file, e, route, m, q, rb, ok) ==
    IF route = "/mini/tx" THEN handleTx(file, e, m, q, rb, ok)
    ELSE handleMiniFrame(file, e, m, q, rb, ok)

\* A request to a frame or transaction route, up to its first await: a POST
\* under a configured API key waits for api.neynar.com.
MiniRequest(route, m, q, body) ==
    /\ variant \in {"mini", "mini3"}
    /\ conn.pc \in {"idle", "done"}
    /\ route \in MiniRoutes(variant)
    /\ m = "GET" => body = NoBody
    /\ LET sent == [IdleOut EXCEPT !.route = route, !.method = m, !.query = q,
                                   !.body = body]
           r    == Handle(variant, env, route, m, q, ReqBody(env, body),
                          validateWithNeynar(env.apiKey, "none"))
       IN  IF m = "POST" /\ env.apiKey # ""
           THEN conn' = [sent EXCEPT !.pc = "validating"]
           ELSE conn' = [sent EXCEPT !.pc = "done", !.status = r.status,
                                    !.payload = r.payload]
    /\ UNCHANGED <<variant, env, script, renderVars, composeVars, selectVars,
                   frameVars>>

\* api.neynar.com answers, or the fetch fails, and the handler resumes.
NeynarReplies(reply) ==
    /\ conn.pc = "validating"
    /\ LET r == Handle(variant, env, conn.route, conn.method, conn.query,
                       ReqBody(env, conn.body),
                       validateWithNeynar(env.apiKey, reply))
       IN  conn' = [conn EXCEPT !.pc = "done", !.reply = reply,
                              !.status = r.status, !.payload = r.payload]
    /\ UNCHANGED <<variant, env, script, renderVars, composeVars, selectVars,
                   frameVars>>

\* POST /frame/tx and GET /frame/tx of part_002.  An exception that leaves a
\* handler is answered 500 by Express.
FrameTx(e, m, q, rb) ==
    LET fid  == IF m = "POST" THEN Or(q, Or(Member(rb, "fid"), <<"0">>))
                ELSE Or(q, <<"0">>)
        data == buildMintData("compose", MINT_SELECTOR("compose", e), fid)
    IN  IF m = "POST" /\ CONTRACT_ADDRESS(e) = <<>>
        THEN Answer(500, ErrorPayload("CONTRACT_ADDRESS missing"))
        ELSE IF data.raised
        THEN [status |-> 500, payload |-> ErrorPayload("SyntaxError"), raised |-> TRUE]
        ELSE Answer(200, TxPayload(e, data.text))

FrameTxRequest(m, q, body) ==
    /\ variant = "compose"
    /\ conn.pc \in {"idle", "done"}
    /\ m = "GET" => body = NoBody
    /\ LET r == FrameTx(env, m, q, ReqBody(env, body))
       IN  conn' = [IdleOut EXCEPT !.pc = "done", !.route = "/frame/tx",
                       !.method = m, !.query = q, !.body = body,
                       !.status = r.status, !.payload = r.payload,
                       !.raised = r.raised]
    /\ UNCHANGED <<variant, env, script, renderVars, composeVars, selectVars,
                   frameVars>>

(***************************************************************************)
(* GET /metadata/:fid.json                                                 *)
(***************************************************************************)
Attribute(trait, value) == [trait_type |-> trait, value |-> value]

\* The handler from the point where the lookup has settled; the mutant lets
\* the exception of the lookup leave the handler.
MetadataNoCatch(file, fid, reply) ==
    IF reply \in {"unparsable", "network"}
    THEN [status |-> 500, payload |-> ErrorPayload("lookup"), raised |-> TRUE]
    ELSE Answer(200, [kind |-> "metadata", name |-> <<"WarpCat #">> \o fid,
                      image |-> "fallbackImage",
                      attributes |-> <<Attribute("FID", fid)>>])

Metadata(file, fid, reply) ==
    LET username == IF reply = "user" THEN <<"alice">> ELSE <<"user-">> \o fid
        pfp      == IF reply = "user" THEN "pfp" ELSE "fallbackImage"
    IN  IF reply \in {"unparsable", "network"}
        THEN Answer(200, [kind |-> "metadata", name |-> <<"WarpCat #">> \o fid,
                          image |-> "fallbackImage",
                          attributes |-> <<Attribute("FID", fid)>>])
        ELSE Answer(200, [kind |-> "metadata", name |-> <<"WarpCat #">> \o fid,
                          image |-> pfp,
                          attributes |-> <<Attribute("FID", fid),
                                           Attribute("Username", username),
                                           Attribute("Collection", <<"WarpCat">>)>>])

\* The request up to `await fetch(url)`.
GetMetadata(fid) ==
    /\ variant \in {"mini", "mini3"}
    /\ conn.pc \in {"idle", "done"}
    /\ conn' = [IdleOut EXCEPT !.pc = "lookup", !.route = "/metadata/:fid.json",
                              !.method = "GET", !.query = fid]
    /\ UNCHANGED <<variant, env, script, renderVars, composeVars, selectVars,
                   frameVars>>

\* client.warpcast.com answers the user lookup, or the fetch fails: a 2xx
\* reply with the user, a 2xx reply whose JSON holds no user, a non-2xx reply,
\* a 2xx reply whose body is no JSON, or no reply (fetch rejects).
LookupReplies(reply) ==
    /\ conn.pc = "lookup"
    /\ LET r == Metadata(variant, conn.query, reply)
       IN  conn' = [conn EXCEPT !.pc = "done", !.reply = reply,
                              !.status = r.status, !.payload = r.payload,
                              !.raised = r.raised]
    /\ UNCHANGED <<variant, env, script, renderVars, composeVars, selectVars,
                   frameVars>>

(***************************************************************************)
(* The account association script: src/scripts/gen-assoc.js ("assoc") and  *)
(* part_000 ("assoc0"), which checks its environment first.                *)
(***************************************************************************)
\* The values PUBLIC_DOMAIN is configured with; a scheme is a token of its own.
Domains == {<<>>, <<"https://", "cat.example">>, <<"http://", "cat.example">>}

\* DOMAIN of each file.
DOMAIN_OF(file, e) ==
    IF file = "assoc0" /\ e.domain # <<>> THEN e.domain ELSE <<"warpcat.xyz">>

\* `https://${DOMAIN.replace(/^https?:\/\//, "")}`
WithHttps(d) ==
    <<"https://">> \o (IF d[1] \in {"https://", "http://"} THEN Tail(d) ELSE d)

IdleScript == [pc |-> "start", requests |-> <<>>, answers |-> <<>>,
               printed |-> FALSE, exit |-> -1]

\* The script from the point where an attempt has settled; the mutant gives
\* up after the first failure.
AttemptSettledNoRetry(file, e, s, o) ==
    IF o = "ok"
    THEN [s EXCEPT !.pc = "exited", !.answers = Append(@, o),
                   !.printed = TRUE, !.exit = 0]
    ELSE [s EXCEPT !.pc = "exited", !.answers = Append(@, o), !.exit = 1]

AttemptSettled(file, e, s, o) ==
    IF o = "ok"
    THEN [s EXCEPT !.pc = "exited", !.answers = Append(@, o),
                   !.printed = TRUE, !.exit = 0]
    ELSE IF s.pc = "try1"
    THEN [s EXCEPT !.pc = "try2", !.answers = Append(@, o),
                   !.requests = Append(@, WithHttps(DOMAIN_OF(file, e)))]
    ELSE [s EXCEPT !.pc = "exited", !.answers = Append(@, o), !.exit = 1]

\* The module body up to the first `await tryOnce(DOMAIN)`.
RunScript ==
    /\ variant \in {"assoc", "assoc0"}
    /\ script.pc = "start"
    /\ IF variant = "assoc0" /\ (env.apiKey = "" \/ env.walletId = "")
       THEN script' = [script EXCEPT !.pc = "exited", !.exit = 1]
       ELSE script' = [script EXCEPT !.pc = "try1",
                           !.requests = <<DOMAIN_OF(variant, env)>>]
    /\ UNCHANGED <<variant, env, conn, renderVars, composeVars, selectVars,
                   frameVars>>

\* api.neynar.com answers tryOnce: a 2xx reply with JSON, a non-2xx reply,
\* no reply (fetch rejects), or a 2xx reply JSON.parse rejects.
AssocReplies(o) ==
    /\ script.pc \in {"try1", "try2"}
    /\ script' = AttemptSettled(variant, env, script, o)
    /\ UNCHANGED <<variant, env, conn, renderVars, composeVars, selectVars,
                   frameVars>>

(***************************************************************************)
(* Specifications                                                          *)
(***************************************************************************)
LayerFiles == Files \ CatFiles("background")

\* The asset directories of Spec: any of the backgrounds, and the layer files
\* all there, all but the headgear, or all missing.
Deployments ==
    {B \cup L : B \in SUBSET CatFiles("background"),
                L \in {LayerFiles, LayerFiles \ CatFiles("headgear"), {}}}

\* Spec: either server, MaxReq requests at a time.
Init ==
    /\ variant \in {"render", "compose"}
    /\ calls = [s \in Slots |-> IdleCall]
    /\ cursor = [s \in Slots |-> 0]
    /\ store \in IF variant = "compose" THEN Deployments ELSE {{}}
    /\ reqs = [s \in Slots |-> IdleReq]
    /\ sel = IdleSel
    /\ minted = <<>>
    /\ resp = IdleResp
    /\ mintLog = {}
    /\ env = NoEnv
    /\ conn = IdleOut
    /\ script = IdleScript

Next ==
    \/ \E s \in Slots, p \in RenderParams : GetPreviewSvg(s, p)
    \/ \E s \in Slots : Draw(s)
    \/ \E s \in Slots : SendSvg(s)
    \/ \E s \in Slots, p \in ComposeParams : GetSvg(s, p)
    \/ \E s \in Slots, m \in {"GET", "HEAD"}, p \in ComposeParams : RequestPng(s, m, p)
    \/ \E s \in Slots : PngResolved(s)
    \/ \E s \in Slots : PngRejected(s)

Spec == Init /\ [][Next]_vars

\* SpecAssets: the compose server over every set of asset files, one request
\* at a time.
InitAssets ==
    /\ variant = "compose"
    /\ calls = [s \in Slots |-> IdleCall]
    /\ cursor = [s \in Slots |-> 0]
    /\ store \in SUBSET Files
    /\ reqs = [s \in Slots |-> IdleReq]
    /\ sel = IdleSel
    /\ minted = <<>>
    /\ resp = IdleResp
    /\ mintLog = {}
    /\ env = NoEnv
    /\ conn = IdleOut
    /\ script = IdleScript

NextAssets ==
    \/ \E p \in ComposeParams : GetSvg(1, p)
    \/ \E m \in {"GET", "HEAD"}, p \in ComposeParams : RequestPng(1, m, p)
    \/ PngResolved(1)
    \/ PngRejected(1)

SpecAssets == InitAssets /\ [][NextAssets]_vars

\* SpecSelect: one run of the selector for every configuration and every
\* sequence of generator numbers.
InitSelect ==
    /\ variant = "select"
    /\ calls = [s \in Slots |-> IdleCall]
    /\ cursor = [s \in Slots |-> 0]
    /\ store = {}
    /\ reqs = [s \in Slots |-> IdleReq]
    /\ \E cfg \in SelectConfigs, d \in [1..Len(Order) -> 0..(RngGrain - 1)] :
          sel = [IdleSel EXCEPT !.pc = "draw", !.cfg = cfg, !.draws = d]
    /\ minted = <<>>
    /\ resp = IdleResp
    /\ mintLog = {}
    /\ env = NoEnv
    /\ conn = IdleOut
    /\ script = IdleScript

NextSelect ==
    \/ DrawCategory
    \/ ApplyConflicts
    \/ ApplyRequirements
    \/ FillAndReturn

SpecSelect == InitSelect /\ [][NextSelect]_vars

\* SpecRng: one generator of prngFromFid called again and again.
InitRng ==
    /\ variant = "rng"
    /\ \E f \in RenderFids :
          calls = [s \in Slots |->
                     IF s = 1 THEN [IdleCall EXCEPT !.pc = "drawing", !.fid = f]
                     ELSE IdleCall]
    /\ cursor = PrngFromFid([s \in Slots |-> 0], 1)
    /\ store = {}
    /\ reqs = [s \in Slots |-> IdleReq]
    /\ sel = IdleSel
    /\ minted = <<>>
    /\ resp = IdleResp
    /\ mintLog = {}
    /\ env = NoEnv
    /\ conn = IdleOut
    /\ script = IdleScript

NextRng == RngCall

SpecRng == InitRng /\ [][NextRng]_vars

\* SpecMint: the frame and image routes of src/index.js 370-706, one request
\* after the other.
InitMint ==
    /\ variant = "render"
    /\ calls = [s \in Slots |-> IdleCall]
    /\ cursor = [s \in Slots |-> 0]
    /\ store = {}
    /\ reqs = [s \in Slots |-> IdleReq]
    /\ sel = IdleSel
    /\ minted = <<>>
    /\ resp = IdleResp
    /\ mintLog = {}
    /\ env = NoEnv
    /\ conn = IdleOut
    /\ script = IdleScript

NextMint ==
    \/ \E dir \in ImageDirs, p \in ImageParams : GetImage(dir, p)
    \/ \E b \in MintBodies : PostFramePreview(b)
    \/ \E b \in MintBodies : PostFrameMint(b)

SpecMint == InitMint /\ [][NextMint]_vars

\* The mini-app server under each configuration, serving one request at a
\* time; the /frame/tx routes of the compose file.
InitMini ==
    /\ variant \in {"mini", "mini3", "compose"}
    /\ env \in [secret : {"", "whsec"}, apiKey : {"", "key"},
                contract : Contracts, selector : Selectors,
                bodyDefault : {"object", "undefined"},
                walletId : {""}, domain : {<<>>}]
    /\ variant = "mini3" => env.selector = <<>>
    /\ variant = "compose" => /\ env.secret = ""
                              /\ env.apiKey = ""
                              /\ env.bodyDefault = "object"
    /\ conn = IdleOut
    /\ script = IdleScript
    /\ calls = [s \in Slots |-> IdleCall]
    /\ cursor = [s \in Slots |-> 0]
    /\ store = {}
    /\ reqs = [s \in Slots |-> IdleReq]
    /\ sel = IdleSel
    /\ minted = <<>>
    /\ resp = IdleResp
    /\ mintLog = {}

NextMini ==
    \/ \E body \in Bodies, sig \in Signatures : PostWebhook(body, sig)
    \/ \E route \in {"/mini/tx", "/mini/frame", "/frame/mint"}, m \in {"GET", "POST"},
          q \in {Missing, Fid1, FidText, FidNeg}, body \in Bodies : MiniRequest(route, m, q, body)
    \/ \E reply \in NeynarOutcomes : NeynarReplies(reply)
    \/ \E m \in {"GET", "POST"}, q \in {Missing, Fid1, FidText, FidNeg}, body \in Bodies : FrameTxRequest(m, q, body)
    \/ \E fid \in {Fid1, FidText, FidNeg} : GetMetadata(fid)
    \/ \E reply \in {"user", "noUser", "non2xx", "unparsable", "network"} : LookupReplies(reply)

SpecMini == InitMini /\ [][NextMini]_vars

\* The association script under each environment.  The runtime keeps running
\* the script and every request it issued is answered.
InitScript ==
    /\ variant \in {"assoc", "assoc0"}
    /\ env \in [secret : {""}, apiKey : {"", "key"}, contract : {<<>>},
                selector : {<<>>}, bodyDefault : {"object"},
                walletId : {"", "wallet"}, domain : Domains]
    /\ conn = IdleOut
    /\ script = IdleScript
    /\ calls = [s \in Slots |-> IdleCall]
    /\ cursor = [s \in Slots |-> 0]
    /\ store = {}
    /\ reqs = [s \in Slots |-> IdleReq]
    /\ sel = IdleSel
    /\ minted = <<>>
    /\ resp = IdleResp
    /\ mintLog = {}

NextScript ==
    \/ RunScript
    \/ \E o \in {"ok", "non2xx", "network", "unparsable"} : AssocReplies(o)

SpecScript == InitScript /\ [][NextScript]_vars /\ WF_vars(NextScript)


(***************************************************************************)
(* Properties                                                              *)
(***************************************************************************)
Range(f) == {f[k] : k \in DOMAIN f}

Answered(r) == r.pc \in {"await", "sent", "failed"}

BgFiles == CatFiles("background")

\* C1: trait selection is deterministic.  Two answered requests for the same
\* identifier hold the same selection in every category -- the palette and the
\* five traits of renderWarpCatSVG, the background of buildSvg -- and the same
\* outcome, whatever the other slot served in between.
C1_Deterministic ==
    /\ \A s, t \in Slots :
          /\ calls[s].pc = "sent"
          /\ calls[t].pc = "sent"
          /\ calls[s].fid = calls[t].fid
          => /\ calls[s].picks = calls[t].picks
             /\ calls[s].status = calls[t].status
    /\ \A s, t \in Slots :
          /\ Answered(reqs[s])
          /\ Answered(reqs[t])
          /\ reqs[s].fid = reqs[t].fid
          => /\ reqs[s].out.bg = reqs[t].out.bg
             /\ reqs[s].out.raised = reqs[t].out.raised

\* Two finished renderWarpCatSVG calls for one identifier that arrived as
\* different route parameters ("1" and "01").
C1_Witness ==
    \E s, t \in Slots :
        /\ calls[s].pc = "sent"
        /\ calls[t].pc = "sent"
        /\ calls[s].fid = calls[t].fid
        /\ calls[s].param # calls[t].param

\* C2: conflict rules are enforced on the returned Selection.  When the
\* selector drew an option of a rule's trigger set for the rule's category,
\* the returned Selection holds no denied option in any category the rule
\* names; with the example rule, eyes = laser excludes headgear = headset.
C2_ConflictEnforced ==
    sel.pc = "done" =>
        \A k \in 1..Len(ConflictRules) :
            LET rule == ConflictRules[k]
            IN  sel.pick[rule.cat] \in rule.ids =>
                    \A c \in DOMAIN rule.deny : sel.pick[c] \notin rule.deny[c]

\* C3: coverage.  Every returned selection holds, for each category with a
\* non-empty table, an option of that table: the six draws of
\* renderWarpCatSVG, and the background of buildSvg whenever a background file
\* exists.
C3_Coverage ==
    /\ \A s \in Slots :
          calls[s].pc = "sent" =>
              \A k \in 1..Len(Tables) : calls[s].picks[k] \in Range(Tables[k])
    /\ \A s \in Slots :
          (Answered(reqs[s]) /\ ~reqs[s].out.raised /\ Len(Bgs(store)) > 0)
              => reqs[s].out.bg \in Range(Bgs(store))

\* C4: the generator's numbers lie in [0,1).  Every number a draw obtained
\* is below 1 (its numerator is below 0xffffffff), so the index computed from
\* it is a valid index of the table drawn from.
C4_RngBelowOne ==
    \A s \in Slots :
        \A k \in 1..Len(calls[s].rolls) :
            /\ calls[s].rolls[k] # U32Max
            /\ FloorScaled(calls[s].rolls[k], Len(Tables[k])) < Len(Tables[k])

\* C5: an identifier that is no non-negative integer is treated as zero and
\* never raises.  Every request with such an identifier is answered without
\* an exception and with the selection of identifier 0.
C5_InvalidIdIsZero ==
    /\ \A s \in Slots :
          (Answered(reqs[s]) /\ ~IsDecimal(reqs[s].fid))
              => /\ ~reqs[s].out.raised
                 /\ reqs[s].out.bg = BuildSvg(FidZero, store).bg
                 /\ reqs[s].path = "svg" => reqs[s].status = 200
    /\ \A s \in Slots :
          (calls[s].pc = "sent" /\ ~IsDecimal(calls[s].param))
              => calls[s].picks = RenderAlone(FidZero)

\* C6: composition never fails because of missing assets.  Over every set of
\* asset files, each layer of an answered request is the text of its primary
\* file when that exists, else of its fallback when one is configured and
\* exists, else empty; the document has its seven layers and the label; and
\* buildSvg raised only where the identifier is not an integer literal.
C6_AssetsNeverFail ==
    \A s \in Slots :
        Answered(reqs[s]) =>
            LET out == reqs[s].out
                want(rel, fb) == IF rel \in store THEN <<rel>>
                                 ELSE IF fb # NoPath /\ fb \in store THEN <<fb>>
                                 ELSE <<>>
            IN  /\ out.raised => ~IsSignedDecimal(reqs[s].fid)
                /\ ~out.raised =>
                      /\ Len(out.layers) = Len(Categories)
                      /\ out.label = reqs[s].fid
                      /\ out.layers[1] = want(<<"background", out.bg>>, BgFallback)
                      /\ \A k \in 1..Len(LayerAssets) :
                            out.layers[k + 1] =
                                want(LayerAssets[k].rel, LayerAssets[k].fallback)

\* A document built while assets were missing: the background came from the
\* fallback file and another layer is empty.
C6_Witness ==
    \E s \in Slots :
        /\ Answered(reqs[s])
        /\ ~reqs[s].out.raised
        /\ <<"background", reqs[s].out.bg>> \notin store
        /\ reqs[s].out.layers[1] = <<BgFallback>>
        /\ \E k \in 2..Len(Categories) : reqs[s].out.layers[k] = <<>>

\* C7: graceful degradation leaves the other layers untouched.  For every
\* document a request was answered with and every category, buildSvg over the
\* same files without that category's files returns a document whose layer of
\* that category is empty and whose other layers and label are the same.
C7_DegradesOneLayer ==
    \A s \in Slots :
        (Answered(reqs[s]) /\ ~reqs[s].out.raised) =>
            \A k \in 1..Len(Categories) :
                LET less == BuildSvg(reqs[s].fid, store \ CatFiles(Categories[k]))
                IN  /\ ~less.raised
                    /\ less.layers[k] = <<>>
                    /\ less.label = reqs[s].out.label
                    /\ \A j \in 1..Len(Categories) :
                          j # k => less.layers[j] = reqs[s].out.layers[j]

\* A document built from the complete asset set, each layer filled.
C7_Witness ==
    \E s \in Slots :
        /\ store = Files
        /\ Answered(reqs[s])
        /\ ~reqs[s].out.raised
        /\ \A k \in 1..Len(Categories) : reqs[s].out.layers[k] # <<>>

RECURSIVE Remainder(_, _, _)
Remainder(t, u, j) ==
    IF j = 0 THEN u * TotalWeight(t)
    ELSE Remainder(t, u, j - 1) - RngGrain * t[j].weight

\* The option of table t at which the subtraction first leaves r <= 0 is
\* option j; or the subtraction never does and j is the last option.
StopsAt(t, u, j) ==
    \/ /\ Remainder(t, u, j) <= 0
       /\ \A i \in 1..(j - 1) : Remainder(t, u, i) > 0
    \/ /\ j = Len(t)
       /\ \A i \in 1..Len(t) : Remainder(t, u, i) > 0

C12_ZeroWeightsDrawNothing ==
    \A k \in 1..Len(sel.drawn) :
        LET t == TableOf(sel.cfg, Order[k])
        IN  (t # <<>> /\ TotalWeight(t) = 0) =>
                /\ sel.drawn[k] = EmptyPick
                /\ \A j \in 1..Len(t) : sel.drawn[k] # t[j].id

\* C13: requirement rules hold on the returned Selection.  When the option
\* of a rule's trigger category is in the rule's trigger set, the option of
\* the target category (body) in the returned Selection is in the rule's
\* allowed subset, or else unset.
C13_RequirementHolds ==
    sel.pc = "done" =>
        \A k \in 1..Len(RequirementRules) :
            LET rule == RequirementRules[k]
            IN  sel.pick[rule.cat] \in rule.ids =>
                    \/ sel.pick[rule.target] \in rule.allowed
                    \/ sel.pick[rule.target] = Null

\* The options as drawn in step 3, before any rule ran.
DrawnPick ==
    [c \in CatSet |->
        LET k == CHOOSE k \in 1..Len(Order) : Order[k] = c
        IN  IF k <= Len(sel.drawn) THEN sel.drawn[k] ELSE Null]

AfterConflicts == ApplyAll(ApplyConflict, ConflictRules, DrawnPick)

AfterRequirements == ApplyAll(ApplyRequirement, RequirementRules, AfterConflicts)

Positions(d, tag) == {i \in 1..Len(d) : d[i].tag = tag}

CatIndex(c) == CHOOSE k \in 1..Len(Categories) : Categories[k] = c

\* The label is the one last element of d: every pasted fragment precedes it
\* and only its closing tag and the root's follow.
LabelLast(d) ==
    /\ Positions(d, "label") = {Len(d) - 2}
    /\ \A i \in Positions(d, "frag") : i < Len(d) - 2

\* C15: in every document of the compositor the layers appear in the
\* configured category order and the identifier label is the last element,
\* after every trait layer, whichever fragments are missing or replaced by
\* fallbacks (and whether or not the files are documents of their own).
C15_LayerOrderLabelLast ==
    /\ \A s \in Slots :
          (Answered(reqs[s]) /\ ~reqs[s].out.raised) =>
              \A W \in {{}, store} :
                  LET d == Document(reqs[s].out, W)
                  IN  /\ LabelLast(d)
                      /\ d[Len(d) - 2].of = reqs[s].fid
                      /\ \A i, j \in Positions(d, "frag") :
                            i < j => CatIndex(d[i].of[1]) < CatIndex(d[j].of[1])
    /\ \A s \in Slots :
          (calls[s].pc = "sent" /\ calls[s].status = 200) =>
              LET d == RenderDocument(calls[s].picks, calls[s].fid)
              IN  LabelLast(d) /\ d[Len(d) - 2].of = calls[s].fid

\* A document in which the background came from its fallback file, a layer is
\* missing and at least three fragments were pasted.
C15_Witness ==
    \E s \in Slots :
        /\ Answered(reqs[s])
        /\ ~reqs[s].out.raised
        /\ reqs[s].out.layers[1] = <<BgFallback>>
        /\ <<"background", reqs[s].out.bg>> # BgFallback
        /\ \E k \in 2..Len(Categories) : reqs[s].out.layers[k] = <<>>
        /\ Cardinality(Positions(Document(reqs[s].out, store), "frag")) >= 3

\* C16: every fragment is stripped of its own document-level wrapper before
\* it is nested.  Whatever the asset files hold, the document returned by
\* buildSvg has exactly one document root and no closing root tag before its
\* end.
C16_OneRoot ==
    \A s \in Slots :
        (Answered(reqs[s]) /\ ~reqs[s].out.raised) =>
            \A W \in SUBSET store :
                LET d == Document(reqs[s].out, W)
                IN  /\ Positions(d, "svg") = {1}
                    /\ Positions(d, "/svg") = {Len(d)}

\* C17: composition is repeatable.  With the asset files unchanged, two
\* compositions for one identifier -- buildSvg or renderWarpCatSVG, whatever
\* was composed in between -- yield identical documents and outcomes.
C17_Repeatable ==
    /\ \A s, t \in Slots :
          /\ Answered(reqs[s])
          /\ Answered(reqs[t])
          /\ reqs[s].fid = reqs[t].fid
          => /\ reqs[s].out.raised = reqs[t].out.raised
             /\ ~reqs[s].out.raised =>
                   Document(reqs[s].out, store) = Document(reqs[t].out, store)
    /\ \A s, t \in Slots :
          /\ calls[s].pc = "sent"
          /\ calls[t].pc = "sent"
          /\ calls[s].fid = calls[t].fid
          => /\ calls[s].status = calls[t].status
             /\ RenderDocument(calls[s].picks, calls[s].fid)
                   = RenderDocument(calls[t].picks, calls[t].fid)

\* The same request answered twice by renderWarpCatSVG.
C17_Witness ==
    \E s, t \in Slots :
        /\ s # t
        /\ calls[s].pc = "sent"
        /\ calls[t].pc = "sent"
        /\ calls[s].param = calls[t].param
        /\ calls[s].status = 200

\* C18: the server answers GET /render/:fid.svg with the dynamic trait SVG
\* for that fid: the route is registered and its response is the composed
\* image document.
C18_RenderRouteAnswers ==
    resp.dir = <<"render">> =>
        /\ resp.handler # NoRoute
        /\ resp.status = 200
        /\ resp.doc = RenderDocument(RenderAlone(resp.fid), resp.fid)

\* C20: after any sequence of POST /frame/mint requests, with numeric,
\* non-numeric or missing fids, the persisted minted list as loadMinted reads
\* it back holds no value twice.
C20_NoDuplicateMinted ==
    \A i, j \in 1..Len(minted) : i # j => minted[i] # minted[j]

\* C19: the digest cursor of a generator is always a multiple of 8 in 0..56;
\* every call reads a full chunk of 8 hex digits, at the position 8 x (calls
\* so far, modulo 8); call n + 8 reads the chunk and returns the number of
\* call n; and the first six calls -- those of one renderWarpCatSVG -- read
\* six different positions.
C19_CursorWraps ==
    variant = "rng" =>
        LET c == calls[1]
            n == Len(c.rolls)
        IN  /\ cursor[Cell(1)] \in {8 * k : k \in 0..7}
            /\ cursor[Cell(1)] = (8 * n) % 64
            /\ \A k \in 1..n :
                  /\ c.picks[k].at = 8 * ((k - 1) % 8)
                  /\ Len(c.picks[k].chunk) = 8
                  /\ c.rolls[k] = ParseHex(c.picks[k].chunk)
            /\ \A k \in 1..n :
                  k + 8 <= n => /\ c.picks[k + 8] = c.picks[k]
                                /\ c.rolls[k + 8] = c.rolls[k]
            /\ \A j, k \in 1..n :
                  (j < k /\ k <= 6) => c.picks[j].at # c.picks[k].at

\* A generator called more than eight times: its cursor went from 56 back
\* to 0 and on to 8.
C19_Witness ==
    /\ variant = "rng"
    /\ Len(calls[1].rolls) = 9
    /\ calls[1].picks[8].at = 56
    /\ calls[1].picks[9].at = 0
    /\ cursor[Cell(1)] = 8

\* The body fid b spells an integer (the default 0 included).
IsIntegerFid(b) == b = Missing \/ IsSignedDecimal(b)

\* C21: one mint per FID.  For every integer fid f, a POST /frame/mint for f
\* answers 'WarpCat Minted' exactly when no POST /frame/mint for f was served
\* before and 'Already Minted' otherwise; a POST /frame/preview for f shows
\* 'Already Minted - View' exactly when a mint for f was served before and
\* 'Mint' otherwise.
C21_OneMintPerFid ==
    [][/\ (resp'.handler = "frameMint" /\ IsIntegerFid(resp'.fid)) =>
             /\ resp'.title \in {"WarpCat Minted", "Already Minted"}
             /\ (resp'.title = "WarpCat Minted") <=> (ExactInt(resp'.fid) \notin mintLog)
       /\ (resp'.handler = "framePreview" /\ IsIntegerFid(resp'.fid)) =>
             /\ resp'.button \in {"Mint", "Already Minted - View"}
             /\ (resp'.button = "Mint") <=> (ExactInt(resp'.fid) \notin mintLog)
      ]_vars

\* C22: POST /frame/preview never changes the minted store; a POST
\* /frame/mint for a fid that was recorded by an earlier mint leaves the
\* store as it was; a mint of a fid not yet recorded appends that one fid and
\* changes nothing else.
C22_MintedStoreFrame ==
    [][/\ resp'.handler # "frameMint" => minted' = minted
       /\ resp'.handler = "frameMint" =>
             IF ExactInt(resp'.fid) \in mintLog
             THEN minted' = minted
             ELSE minted' = Append(minted, [null |-> FALSE, val |-> ExactInt(resp'.fid)])
      ]_vars


\* The /neynar/webhook request in conn was answered.
WebhookDone == conn.route = "/neynar/webhook" /\ conn.pc = "done"

\* C23: under a configured NEYNAR_WEBHOOK_SECRET a POST /neynar/webhook is
\* answered 200 only if its x-neynar-signature header is the HMAC-SHA256 of
\* the JSON-serialised body under that secret, and never when the handler
\* raised an exception.
C23_WebhookSigned ==
    (WebhookDone /\ env.secret # "" /\ conn.status = 200) =>
        /\ ~conn.raised
        /\ conn.sig = Hmac(env.secret, Stringify(conn.body.members))

\* The request in conn went to a frame or transaction route of the mini-app
\* server, and was answered.
MiniRouted == conn.route \in {"/mini/tx", "/mini/frame", "/frame/mint"}

MiniDone == MiniRouted /\ conn.pc = "done"

\* C24: a POST to /mini/tx, /mini/frame or /frame/mint gets a frame or
\* transaction payload only if validateWithNeynar returned ok; a failed
\* validation (non-2xx, not marked valid, unparsable, network exception) is
\* answered 401 whether or not a contract address is configured; a GET is
\* never validated; without an API key no POST is refused.
C24_ValidatedPosts ==
    /\ (MiniRouted /\ conn.method = "GET") =>
          conn.pc # "validating" /\ conn.reply = "none"
    /\ (MiniDone /\ conn.method = "GET") => conn.status # 401
    /\ (MiniDone /\ conn.method = "POST") =>
          /\ conn.payload.kind \in {"tx", "frame"} =>
                (env.apiKey = "" \/ conn.reply \in {"valid", "isValid"})
          /\ (env.apiKey # "" /\ conn.reply \notin {"valid", "isValid"}) =>
                conn.status = 401
          /\ env.apiKey = "" => conn.reply = "none" /\ conn.status # 401

\* C24 witness: a POST /mini/tx whose validation request failed on the
\* network was answered 401 although no contract address is configured.
C24_Witness ==
    /\ MiniDone /\ conn.route = "/mini/tx" /\ conn.method = "POST"
    /\ conn.reply = "network"
    /\ CONTRACT_ADDRESS(env) = <<>>
    /\ conn.status = 401

\* The request in conn went to a transaction route and was answered.
TxDone == conn.route \in {"/mini/tx", "/frame/tx"} /\ conn.pc = "done"

\* C25: no transaction payload has an empty 'to'.  For every GET or POST to
\* /mini/tx or /frame/tx: without a configured CONTRACT_ADDRESS the answer is
\* 500 (or the 401 of a failed validation, which is decided first), and every
\* 200 answer carries the lower-cased address, the chain id and the method
\* eth_sendTransaction.
C25_NoEmptyTo ==
    TxDone =>
        /\ CONTRACT_ADDRESS(env) = <<>> => conn.status \in {500, 401}
        /\ conn.status = 200 =>
              /\ conn.payload.kind = "tx"
              /\ conn.payload.to = Lower(env.contract)
              /\ conn.payload.to # <<>>
              /\ conn.payload.chainId = CHAIN_ID
              /\ conn.payload.method = "eth_sendTransaction"

\* The selector buildMintData of the deployed file works with.
SelectorInUse == MINT_SELECTOR(variant, env)

\* The fid the transaction handler of the deployed file hands to buildMintData.
FidInUse ==
    LET rb == ReqBody(env, conn.body)
        b  == IF variant = "mini3" THEN Member(rb, "untrustedData")
              ELSE IF conn.method = "GET" /\ variant = "compose" THEN <<>>
              ELSE Member(rb, "fid")
    IN  Or(conn.query, Or(b, <<"0">>))

\* text is selector followed by the 64 lower-case hex digits of n.
IsCallData(text, selector, n) ==
    /\ Len(text) = 74
    /\ SubSeq(text, 1, 10) = selector
    /\ \A k \in 3..74 : IsHexChar(text[k])
    /\ n >= 0
    /\ SubSeq(text, 11, 74) = PadStart(BigIntToString16(n), 64, "0")

\* C26: for every fid, buildMintData does not raise and returns '0x' or the
\* selector followed by the fid as 64 lower-case hex digits: 74 characters,
\* all of them hex digits after '0x'.
C26_MintDataShape ==
    (TxDone /\ (conn.status = 200 \/ conn.raised)) =>
        /\ ~conn.raised
        /\ \/ conn.payload.data = <<"0", "x">>
           \/ IsCallData(conn.payload.data, SelectorInUse,
                         StringToBigInt(FidInUse).val)

\* The /metadata/:fid.json request in conn was answered.
MetadataDone == conn.route = "/metadata/:fid.json" /\ conn.pc = "done"

\* C27: GET /metadata/:fid.json is answered 200 with a metadata object named
\* 'WarpCat #<fid>' whose attributes hold the FID, whatever the user lookup
\* did; after an unparsable body or a network exception the image is the
\* default one and no username is given.
C27_MetadataAlways200 ==
    MetadataDone =>
        /\ conn.status = 200
        /\ conn.payload.kind = "metadata"
        /\ conn.payload.name = <<"WarpCat #">> \o conn.query
        /\ \E k \in DOMAIN conn.payload.attributes :
              conn.payload.attributes[k] = Attribute("FID", conn.query)
        /\ conn.reply \in {"unparsable", "network"} =>
              /\ conn.payload.image = "fallbackImage"
              /\ \A k \in DOMAIN conn.payload.attributes :
                    conn.payload.attributes[k].trait_type # "Username"

\* C27 witness: the lookup of a non-numeric fid failed on the network and the
\* request was answered with the fallback metadata.
C27_Witness ==
    /\ MetadataDone
    /\ conn.reply = "network"
    /\ conn.query = FidText
    /\ conn.status = 200
    /\ Len(conn.payload.attributes) = 1

\* The environment check of part_000 fails.
EnvMissing == variant = "assoc0" /\ (env.apiKey = "" \/ env.walletId = "")

\* What holds of the script run in every state.
AssocSafe ==
    /\ Len(script.requests) <= 2
    /\ Len(script.requests) = 2 =>
          /\ Len(script.answers) >= 1
          /\ script.answers[1] # "ok"
          /\ script.requests[2][1] = "https://"
    /\ script.printed <=> (\E k \in DOMAIN script.answers : script.answers[k] = "ok")
    /\ \A k \in DOMAIN script.answers :
          script.answers[k] = "ok" =>
              k = Len(script.answers) /\ k = Len(script.requests)
    /\ EnvMissing => script.requests = <<>>
    /\ script.pc = "exited" =>
          /\ script.exit \in {0, 1}
          /\ script.exit = 1 <=>
                \/ EnvMissing
                \/ /\ Len(script.answers) = 2
                   /\ \A k \in 1..2 : script.answers[k] # "ok"

\* C28: the association script issues at most two requests, the second one
\* (domain prefixed with https://) only after the first failed; it prints the
\* association on the first success; it exits with code 1 exactly when both
\* attempts failed or the checked environment is incomplete, and then without
\* a request; and once its requests are answered it terminates.
C28_AssocScript == []AssocSafe /\ <>(script.pc = "exited")

\* C28 witness: both attempts failed, the second on an unparsable body, and
\* the script exited with code 1.
C28_Witness ==
    /\ script.pc = "exited"
    /\ Len(script.requests) = 2
    /\ script.answers[1] = "non2xx"
    /\ script.answers[2] = "unparsable"
    /\ script.exit = 1

=============================================================================
